---- MODULE Spec2Model ----
(***************************************************************************)
(* Model of the CRM / SIRENE reconciliation scripts (updatev7.py and its   *)
(* companions).  Text is a sequence of one-character strings; a missing    *)
(* cell of a pandas table is the value NaN.                                 *)
(***************************************************************************)
EXTENDS Integers, Sequences, FiniteSets, TLC

(***************************************************************************)
(* Bounds of the model.                                                    *)
(***************************************************************************)
\* longest normalized name given to match_score
MaxLen == 3
\* largest bucket given to match_single_company
MaxBucket == 2
\* largest headquarters table given to fill_effectif
MaxHead == 2
\* deepest recursion of fill_effectif the interpreter allows (its recursion
\* limit, scaled down)
RecursionLimit == 3
\* largest SIRENE table given to create_sirene_by_dept
MaxRows == 2
\* largest SIRENE table given to update_CRM
MaxSirene == 1
\* longest CRM list given to update_CRM
MaxCrm == 2
\* largest save_interval given to update_CRM
MaxInterval == 2
\* longest raw text given to normalize_name, the words around which a
\* text is built apart
MaxText == 3

(***************************************************************************)
(* Values.                                                                 *)
(***************************************************************************)
\* float('nan'): what pandas holds for an empty cell
NaN == <<"NaN">>

\* str(v) for a cell value: str(float('nan')) is 'nan'
Str(v) ==
  IF v = NaN THEN <<"n", "a", "n">> ELSE v

\* the characters \s of the regular expressions and of str.split/str.strip
IsSpace(c) == c = " "

\* s[:n]
Prefix(s, n) == SubSeq(s, 1, IF Len(s) < n THEN Len(s) ELSE n)

\* Python's `s in t` on strings
IsSubstring(s, t) ==
  \E k \in 0..(Len(t) - Len(s)) : SubSeq(t, k + 1, k + Len(s)) = s

\* s.replace(" ", "")
RemoveSpaces(s) == SelectSeq(s, LAMBDA c : c # " ")

RECURSIVE StripLeft(_)
StripLeft(s) ==
  IF s # <<>> /\ IsSpace(Head(s)) THEN StripLeft(Tail(s)) ELSE s

RECURSIVE StripRight(_)
StripRight(s) ==
  IF s # <<>> /\ IsSpace(s[Len(s)]) THEN StripRight(SubSeq(s, 1, Len(s) - 1)) ELSE s

\* str.strip()
Strip(s) == StripRight(StripLeft(s))

\* str.lower() on the characters of the model
LowerChar(c) ==
  CASE c = "A" -> "a"
    [] c = "B" -> "b"
    [] c = "S" -> "s"
    [] c = "X" -> "x"
    [] c = "Y" -> "y"
    [] OTHER -> c

Lower(s) == [k \in 1..Len(s) |-> LowerChar(s[k])]

\* str.split(): the maximal runs of non-space characters, in order
RECURSIVE SplitAcc(_, _, _)
SplitAcc(s, cur, acc) ==
  IF s = <<>>
  THEN IF cur = <<>> THEN acc ELSE Append(acc, cur)
  ELSE IF IsSpace(Head(s))
       THEN SplitAcc(Tail(s), <<>>, IF cur = <<>> THEN acc ELSE Append(acc, cur))
       ELSE SplitAcc(Tail(s), Append(cur, Head(s)), acc)

Split(s) == SplitAcc(s, <<>>, <<>>)

\* code point of the characters of the model
Ord(c) ==
  CASE c = " " -> 32
    [] c = "(" -> 40
    [] c = ")" -> 41
    [] c = "-" -> 45
    [] c = "." -> 46
    [] c = "A" -> 65
    [] c = "B" -> 66
    [] c = "S" -> 83
    [] c = "X" -> 88
    [] c = "Y" -> 89
    [] c = "a" -> 97
    [] c = "b" -> 98
    [] c = "c" -> 99
    [] c = "d" -> 100
    [] c = "e" -> 101
    [] c = "i" -> 105
    [] c = "l" -> 108
    [] c = "n" -> 110
    [] c = "o" -> 111
    [] c = "p" -> 112
    [] c = "r" -> 114
    [] c = "s" -> 115
    [] c = "u" -> 117
    [] c = "x" -> 120
    [] c = "y" -> 121
    [] OTHER -> 233

\* [A-Za-z0-9_]: the ASCII characters of \w
IsWordChar(c) ==
  LET o == Ord(c)
  IN \/ 48 <= o /\ o <= 57
     \/ 65 <= o /\ o <= 90
     \/ o = 95
     \/ 97 <= o /\ o <= 122

\* s <= t in Python's string order
RECURSIVE StrLeq(_, _)
StrLeq(s, t) ==
  IF s = <<>> THEN TRUE
  ELSE IF t = <<>> THEN FALSE
  ELSE IF Head(s) = Head(t) THEN StrLeq(Tail(s), Tail(t))
  ELSE Ord(Head(s)) < Ord(Head(t))

\* sorted(tokens)
RECURSIVE Insert(_, _)
Insert(tok, sorted) ==
  IF sorted = <<>> THEN <<tok>>
  ELSE IF StrLeq(tok, Head(sorted)) THEN <<tok>> \o sorted
  ELSE <<Head(sorted)>> \o Insert(tok, Tail(sorted))

RECURSIVE Sorted(_)
Sorted(toks) ==
  IF toks = <<>> THEN <<>> ELSE Insert(Head(toks), Sorted(Tail(toks)))

\* " ".join(tokens)
RECURSIVE Join(_)
Join(toks) ==
  IF toks = <<>> THEN <<>>
  ELSE IF Len(toks) = 1 THEN Head(toks)
  ELSE Head(toks) \o <<" ">> \o Join(Tail(toks))

(***************************************************************************)
(* updatev7.py: normalize_name.                                            *)
(***************************************************************************)
\* the character U+212C, SCRIPT CAPITAL B
ScriptCapitalB == "U+212C"

\* unicodedata.normalize('NFKD', c).encode('ascii', 'ignore') for one
\* character: the base letter of an accented letter, the ASCII letter of a
\* compatibility character (SCRIPT CAPITAL B, which str.lower() leaves as
\* it is), the character itself when it is ASCII
FoldChar(c) ==
  IF c = "é" THEN <<"e">>
  ELSE IF c = ScriptCapitalB THEN <<"B">>
  ELSE IF Ord(c) < 128 THEN <<c>>
  ELSE <<>>

RECURSIVE Fold(_)
Fold(s) ==
  IF s = <<>> THEN <<>> ELSE FoldChar(Head(s)) \o Fold(Tail(s))

\* position of the first c in s, 0 when there is none
RECURSIVE IndexFrom(_, _, _)
IndexFrom(s, c, k) ==
  IF k > Len(s) THEN 0
  ELSE IF s[k] = c THEN k
  ELSE IndexFrom(s, c, k + 1)

\* re.sub(r'\([^)]*\)', ' ', s)
RECURSIVE RemoveParens(_)
RemoveParens(s) ==
  IF s = <<>> THEN <<>>
  ELSE LET close == IndexFrom(s, ")", 2)
       IN IF Head(s) = "(" /\ close > 0
          THEN <<" ">> \o RemoveParens(SubSeq(s, close + 1, Len(s)))
          ELSE <<Head(s)>> \o RemoveParens(Tail(s))

\* re.sub(r'\b(w1|w2|...)\b', ' ', s): a maximal run of \w characters that
\* is one of the words becomes a space
RECURSIVE RemoveWordsAcc(_, _, _, _)
RemoveWordsAcc(s, cur, acc, words) ==
  LET flushed == IF cur \in words THEN acc \o <<" ">> ELSE acc \o cur
  IN IF s = <<>> THEN flushed
     ELSE IF IsWordChar(Head(s))
          THEN RemoveWordsAcc(Tail(s), Append(cur, Head(s)), acc, words)
          ELSE RemoveWordsAcc(Tail(s), <<>>, Append(flushed, Head(s)), words)

RemoveWords(s, words) == RemoveWordsAcc(s, <<>>, <<>>, words)

Cedex == {<<"c", "e", "d", "e", "x">>}

LegalForms ==
  { <<"s", "a", "r", "l">>, <<"s", "a">>, <<"s", "a", "s">>, <<"s", "a", "s", "u">>,
    <<"e", "u", "r", "l">>, <<"e", "i">>, <<"s", "c", "i">>, <<"s", "c", "o", "p">>,
    <<"s", "n", "c">>, <<"s", "c">>, <<"s", "a", "s", "f">> }

\* re.sub(r"[^\w\s-]", " ", s)
RemovePunctuation(s) ==
  [k \in 1..Len(s) |->
     IF IsWordChar(s[k]) \/ IsSpace(s[k]) \/ s[k] = "-" THEN s[k] ELSE " "]

\* re.sub(r'\s+', ' ', s).strip()
CollapseSpaces(s) == Join(Split(s))

normalize_name(name) ==
  IF name = NaN \/ Strip(Str(name)) = <<>> THEN <<>>
  ELSE CollapseSpaces(
         RemoveWords(
           RemovePunctuation(
             RemoveWords(RemoveParens(Fold(Lower(name))), Cedex)),
           LegalForms))

(***************************************************************************)
(* normalisationv3.py: normalize_company_name, which writes the column     *)
(* 'nom_normalise' of the SIRENE table.                                    *)
(***************************************************************************)
\* the words of LEGAL_FORMS
CompanyLegalForms ==
  { <<"s", "a", "r", "l">>, <<"s", "a">>, <<"s", "a", "s">>, <<"s", "a", "s", "u">>,
    <<"e", "u", "r", "l">>, <<"e", "i">>, <<"s", "c", "i">>, <<"s", "n", "c">>,
    <<"s", "c">>, <<"s", "c", "o", "p">> }

\* PUNCTUATION.sub('', s)
DeletePunctuation(s) ==
  SelectSeq(s, LAMBDA c : IsWordChar(c) \/ IsSpace(c) \/ c = "-")

\* LEGAL_FORMS.sub('', s), case ignored: a maximal run of \w characters
\* that is one of the words is deleted
RECURSIVE DeleteWordsAcc(_, _, _, _)
DeleteWordsAcc(s, cur, acc, words) ==
  LET flushed == IF Lower(cur) \in words THEN acc ELSE acc \o cur
  IN IF s = <<>> THEN flushed
     ELSE IF IsWordChar(Head(s))
          THEN DeleteWordsAcc(Tail(s), Append(cur, Head(s)), acc, words)
          ELSE DeleteWordsAcc(Tail(s), <<>>, Append(flushed, Head(s)), words)

DeleteWords(s, words) == DeleteWordsAcc(s, <<>>, <<>>, words)

normalize_company_name(name) ==
  IF name = NaN \/ Str(name) = <<>> THEN <<>>
  ELSE CollapseSpaces(
         DeleteWords(DeletePunctuation(Fold(Lower(Str(name)))), CompanyLegalForms))

(***************************************************************************)
(* fuzzywuzzy.fuzz.token_sort_ratio, called by match_score.  The library   *)
(* takes its SequenceMatcher from python-Levenshtein when that package is  *)
(* installed and from difflib otherwise; the two count the matching        *)
(* characters differently, and `matcher` says which one this run has.      *)
(***************************************************************************)
VARIABLE matcher

Matchers == {"difflib", "levenshtein"}

IsAscii(c) == Ord(c) < 128

\* utils.full_process(s, force_ascii=True): non-ASCII characters dropped,
\* every character that is no letter or digit replaced by a space, lower
\* case, strip
FullProcess(s) ==
  LET ascii == SelectSeq(s, IsAscii)
      spaced == [k \in 1..Len(ascii) |-> IF IsWordChar(ascii[k]) /\ ascii[k] # "_" THEN ascii[k] ELSE " "]
  IN Strip(Lower(spaced))

\* fuzz._process_and_sort
ProcessAndSort(s) == Strip(Join(Sorted(Split(FullProcess(s)))))

Max(m, n) == IF m >= n THEN m ELSE n

\* Levenshtein.ratio counts 2 * (length of a longest common subsequence)
RECURSIVE LcsLen(_, _)
LcsLen(a, b) ==
  IF a = <<>> \/ b = <<>> THEN 0
  ELSE IF Head(a) = Head(b) THEN 1 + LcsLen(Tail(a), Tail(b))
  ELSE Max(LcsLen(Tail(a), b), LcsLen(a, Tail(b)))

\* difflib.SequenceMatcher.get_matching_blocks: the longest common block,
\* earliest in a, then earliest in b, and the same again to its left and to
\* its right; the sum of the block sizes
RECURSIVE DifflibMatches(_, _)
DifflibMatches(a, b) ==
  IF a = <<>> \/ b = <<>> THEN 0
  ELSE
    LET blocks == {t \in (1..Len(a)) \X (1..Len(b)) \X (1..Len(a)) :
                     /\ t[1] + t[3] - 1 <= Len(a)
                     /\ t[2] + t[3] - 1 <= Len(b)
                     /\ SubSeq(a, t[1], t[1] + t[3] - 1) = SubSeq(b, t[2], t[2] + t[3] - 1)}
    IN IF blocks = {} THEN 0
       ELSE
         LET best == CHOOSE t \in blocks : \A u \in blocks :
                       \/ t[3] > u[3]
                       \/ t[3] = u[3] /\ t[1] < u[1]
                       \/ t[3] = u[3] /\ t[1] = u[1] /\ t[2] <= u[2]
         IN best[3]
            + DifflibMatches(SubSeq(a, 1, best[1] - 1), SubSeq(b, 1, best[2] - 1))
            + DifflibMatches(SubSeq(a, best[1] + best[3], Len(a)),
                             SubSeq(b, best[2] + best[3], Len(b)))

\* utils.intr(n / d): int(round(.)), Python's round to the nearest, ties to even
Intr(n, d) ==
  LET q == n \div d
      r == n % d
  IN IF 2 * r < d THEN q
     ELSE IF 2 * r > d THEN q + 1
     ELSE IF q % 2 = 0 THEN q ELSE q + 1

\* fuzz.ratio with its decorators check_for_equivalence and check_empty_string
Ratio(m, s1, s2) ==
  IF s1 = s2 THEN 100
  ELSE IF Len(s1) = 0 \/ Len(s2) = 0 THEN 0
  ELSE LET matches == IF m = "difflib" THEN DifflibMatches(s1, s2) ELSE LcsLen(s1, s2)
       IN Intr(100 * 2 * matches, Len(s1) + Len(s2))

token_sort_ratio(m, s1, s2) == Ratio(m, ProcessAndSort(s1), ProcessAndSort(s2))

(***************************************************************************)
(* updatev7.py: extract_acronym and match_score.                           *)
(***************************************************************************)
extract_acronym(name) ==
  LET words == Split(Str(name))
  IN [k \in 1..Len(words) |-> words[k][1]]

\* (a variant: the client name in the SIRENE name only)
substring_bonus_oneway(client_norm, siren_norm) ==
  IF IsSubstring(client_norm, siren_norm) THEN 20 ELSE 0

substring_bonus(client_norm, siren_norm) ==
  IF IsSubstring(client_norm, siren_norm) \/ IsSubstring(siren_norm, client_norm)
  THEN 20 ELSE 0

\* (a variant: the test of line 166 made before the test of line 164)
acronym_bonus_substring_first(client_norm, siren_norm) ==
  LET client_acro == extract_acronym(client_norm)
      siren_acro == extract_acronym(siren_norm)
  IN IF client_acro # <<>> /\ siren_acro # <<>>
     THEN IF IsSubstring(client_acro, RemoveSpaces(siren_norm)) THEN 15
          ELSE IF client_acro = siren_acro THEN 20
          ELSE 0
     ELSE 0

\* (a variant: the two acronyms are not required to be non-empty)
acronym_bonus_unguarded(client_norm, siren_norm) ==
  LET client_acro == extract_acronym(client_norm)
      siren_acro == extract_acronym(siren_norm)
  IN IF client_acro = siren_acro THEN 20
     ELSE IF IsSubstring(client_acro, RemoveSpaces(siren_norm)) THEN 15
     ELSE 0

acronym_bonus(client_norm, siren_norm) ==
  LET client_acro == extract_acronym(client_norm)
      siren_acro == extract_acronym(siren_norm)
  IN IF client_acro # <<>> /\ siren_acro # <<>>
     THEN IF client_acro = siren_acro THEN 20
          ELSE IF IsSubstring(client_acro, RemoveSpaces(siren_norm)) THEN 15
          ELSE 0
     ELSE 0

city_bonus(client_city, siren_city) ==
  LET c == Lower(Strip(Str(client_city)))
      s == Lower(Strip(Str(siren_city)))
  IN IF c # <<>> /\ s # <<>> /\ c = s THEN 10 ELSE 0 - 10

\* lines 152-176, on the strings of lines 147-148
ScoreOfStrings(m, c, s, client_city, siren_city) ==
  token_sort_ratio(m, c, s) + substring_bonus(c, s) + acronym_bonus(c, s)
  + city_bonus(client_city, siren_city)

match_score(m, client_norm, siren_norm, client_city, siren_city) ==
  ScoreOfStrings(m, Str(client_norm), Str(siren_norm), client_city, siren_city)

(***************************************************************************)
(* A call of match_score on its own.                                       *)
(***************************************************************************)
VARIABLES ms_args, ms_pc, ms_ret

ms_vars == <<ms_args, ms_pc, ms_ret>>

NameChars == {"a", "b", " "}

\* the normalized names of at most n characters: no leading, trailing or
\* double space
NamesUpTo(n) ==
  {s \in UNION {[1..k -> NameChars] : k \in 0..n} : s = Join(Split(s))}

Names == NamesUpTo(MaxLen)

Cities == {<<>>, <<"x">>, <<"X">>, <<"x", " ">>, <<"y">>}

ms_Idle ==
  /\ ms_args = [client_norm |-> <<>>, siren_norm |-> <<>>,
                client_city |-> <<>>, siren_city |-> <<>>]
  /\ ms_pc = "idle"
  /\ ms_ret = 0

ms_Init ==
  /\ ms_args \in [client_norm : Names, siren_norm : Names,
                  client_city : Cities, siren_city : Cities]
  /\ ms_pc = "call"
  /\ ms_ret = 0

CallMatchScore ==
  /\ ms_pc = "call"
  /\ ms_ret' = match_score(matcher, ms_args.client_norm, ms_args.siren_norm,
                           ms_args.client_city, ms_args.siren_city)
  /\ ms_pc' = "done"
  /\ UNCHANGED <<ms_args, matcher>>

(***************************************************************************)
(* A call of normalize_name on a raw text, and a second call on its        *)
(* result; and the same raw text as the 'nom_entreprise' of a row of       *)
(* normalisationv3.py, which writes its 'nom_normalise'.                   *)
(***************************************************************************)
VARIABLES nn_arg, nn_pc, nn_ret, nn_again, nc_pc, nom_normalise

nn_vars == <<nn_arg, nn_pc, nn_ret, nn_again, nc_pc, nom_normalise>>

NormChars == {"a", "s", "S", " ", "(", ")", "-", ".", "é", ScriptCapitalB}

\* the texts of at most n characters
Texts(n) == UNION {[1..k -> NormChars] : k \in 0..n}

NormWords == {<<"c", "e", "d", "e", "x">>, <<"s", "a", "r", "l">>}

\* the raw texts: the short ones, a word with a character before and after
\* it, and the missing cell
RawTexts ==
  Texts(MaxText)
  \cup {pre \o word \o post : pre \in Texts(1), word \in NormWords, post \in Texts(1)}
  \cup {NaN}

nn_Idle ==
  /\ nn_arg = <<>>
  /\ nn_pc = "idle"
  /\ nn_ret = <<>>
  /\ nn_again = <<>>
  /\ nc_pc = "idle"
  /\ nom_normalise = <<>>

nn_Init ==
  /\ nn_arg \in RawTexts
  /\ nn_pc = "call"
  /\ nn_ret = <<>>
  /\ nn_again = <<>>
  /\ nc_pc = "call"
  /\ nom_normalise = <<>>

CallNormalizeName ==
  /\ nn_pc = "call"
  /\ nn_ret' = normalize_name(nn_arg)
  /\ nn_pc' = "done"
  /\ UNCHANGED <<nn_arg, nn_again, nc_pc, nom_normalise, matcher>>

\* normalize_name on the text the first call returned
CallNormalizeNameAgain ==
  /\ nn_pc = "done"
  /\ nn_again' = normalize_name(nn_ret)
  /\ nn_pc' = "again"
  /\ UNCHANGED <<nn_arg, nn_ret, nc_pc, nom_normalise, matcher>>

\* normalisationv3.py, line 95, for the row whose 'nom_entreprise' is the
\* raw text
ApplyNormalizeCompanyName ==
  /\ nc_pc = "call"
  /\ nom_normalise' = normalize_company_name(nn_arg)
  /\ nc_pc' = "done"
  /\ UNCHANGED <<nn_arg, nn_pc, nn_ret, nn_again, matcher>>

(***************************************************************************)
(* The rows of the SIRENE table, and match_single_company.                 *)
(***************************************************************************)
\* etatAdministratifEtablissement: 'A' (active), 'F' (closed)
EtatActif == <<"A">>

EtatFerme == <<"F">>

\* one row of sirene_df: the columns that updatev7.py reads
SireneRow(siret, siren, nom, ville, cp, etat, tranche, siege) ==
  [siret |-> siret,
   siren |-> siren,
   nom_normalise |-> nom,
   libelleCommuneEtablissement |-> ville,
   codePostalEtablissement |-> cp,
   etatAdministratifEtablissement |-> etat,
   trancheEffectifsEtablissement |-> tranche,
   etablissementSiege |-> siege]

\* the sequences over S of at most n elements
SeqUpTo(S, n) == UNION {[1..k -> S] : k \in 0..n}

\* `score > best_score`, the test that replaces the best candidate so far
\* (a variant: a candidate with an equal score replaces it too)
BetterOrEqual(score, best_score) == score >= best_score

Better(score, best_score) == score > best_score

\* lines 280-281: the best candidate after row n, which scored `score`
KeepBest(prev, n, score) ==
  IF Better(score, prev.best_score)
  THEN [best_match |-> n, best_score |-> score]
  ELSE prev

\* the state of the scan of match_single_company after its first n rows;
\* best_match is the position of the row in the subset, 0 for None
RECURSIVE BestAfter(_, _, _, _, _)
BestAfter(m, normalized_client_name, normalized_client_city, sirene_subset, n) ==
  IF n = 0 THEN [best_match |-> 0, best_score |-> 0 - 1]
  ELSE KeepBest(BestAfter(m, normalized_client_name, normalized_client_city,
                          sirene_subset, n - 1),
                n,
                match_score(m, normalized_client_name,
                            sirene_subset[n].nom_normalise,
                            normalized_client_city,
                            normalize_name(sirene_subset[n].libelleCommuneEtablissement)))

\* the value None of match_single_company
NoMatch == [found |-> FALSE, match |-> 0, score |-> 0]

\* lines 283-285
\* (a variant: the test is `best_match is not None`)
Accept_any(best, threshold) ==
  IF best.best_match # 0
  THEN [found |-> TRUE, match |-> best.best_match, score |-> best.best_score]
  ELSE NoMatch

Accept(best, threshold) ==
  IF best.best_score >= threshold
  THEN [found |-> TRUE, match |-> best.best_match, score |-> best.best_score]
  ELSE NoMatch

match_single_company(m, client_name, client_city, sirene_subset, threshold) ==
  Accept(BestAfter(m, normalize_name(client_name), normalize_name(client_city),
                   sirene_subset, Len(sirene_subset)),
         threshold)

(***************************************************************************)
(* A call of match_single_company on its own.                              *)
(***************************************************************************)
VARIABLES mc_args, mc_pc, mc_ret

mc_vars == <<mc_args, mc_pc, mc_ret>>

ClientNames == {<<"a", "b">>, <<"B">>, <<"a", " ", "b">>, <<>>}

ClientCities == {<<"x">>, <<>>}

\* a candidate row with this name and this city
Candidate(nom, ville) ==
  SireneRow(<<"1">>, <<"1">>, nom, ville, <<"7", "5", "0">>, EtatActif, <<"1", "2">>, TRUE)

CandidateRows ==
  {Candidate(nom, ville) :
     nom \in {<<"a", "b">>, <<"b">>, <<"a", " ", "b">>}, ville \in {<<"x">>, <<"Y">>}}
  \cup {Candidate(<<>>, <<"x">>), Candidate(<<"a", "b">>, <<>>),
        Candidate(<<"a", "b", "a">>, <<"Y">>), Candidate(<<"b", "b">>, <<"Y">>)}

Thresholds == {0 - 10, 0 - 1, 50, 100, 130}

mc_Idle ==
  /\ mc_args = [client_name |-> <<>>, client_city |-> <<>>,
                sirene_subset |-> <<>>, threshold |-> 100]
  /\ mc_pc = "idle"
  /\ mc_ret = NoMatch

mc_Init ==
  /\ mc_args \in [client_name : ClientNames, client_city : ClientCities,
                  sirene_subset : SeqUpTo(CandidateRows, MaxBucket),
                  threshold : Thresholds]
  /\ mc_pc = "call"
  /\ mc_ret = NoMatch

CallMatchSingleCompany ==
  /\ mc_pc = "call"
  /\ mc_ret' = match_single_company(matcher, mc_args.client_name, mc_args.client_city,
                                    mc_args.sirene_subset, mc_args.threshold)
  /\ mc_pc' = "done"
  /\ UNCHANGED <<mc_args, matcher>>

\* the score of the k-th candidate of the call
mc_Score(k) ==
  match_score(matcher, normalize_name(mc_args.client_name),
              mc_args.sirene_subset[k].nom_normalise,
              normalize_name(mc_args.client_city),
              normalize_name(mc_args.sirene_subset[k].libelleCommuneEtablissement))

mc_Candidates == 1..Len(mc_args.sirene_subset)

(***************************************************************************)
(* updatev7.py: find_headquarters and fill_effectif.                       *)
(***************************************************************************)
A_PRECISER == <<"A PRECISER">>

RADIEE == <<"RADIEE">>

\* position in sirene_head_subset of the first row whose siren is
\* siren_code, 0 for None
find_headquarters(sirene_head_subset, siren_code) ==
  LET hits == {k \in 1..Len(sirene_head_subset) :
                 Str(sirene_head_subset[k].siren) = Str(siren_code)}
  IN IF hits = {} THEN 0 ELSE CHOOSE k \in hits : \A j \in hits : k <= j

\* Python's truth value of a cell: the empty string is false, every other
\* string and float('nan') are true
Truthy(v) == v # <<>>

\* `effectif if effectif else 'A PRECISER'`
EffectifOfActive(effectif) ==
  IF Truthy(effectif) THEN effectif ELSE A_PRECISER

\* one activation of fill_effectif: the value it returns, or the row it
\* calls itself on
FillEffectifFrame(sirene_record, sirene_head_subset) ==
  LET etat == sirene_record.etatAdministratifEtablissement
      effectif == sirene_record.trancheEffectifsEtablissement
      est_siege == sirene_record.etablissementSiege
      siege == find_headquarters(sirene_head_subset, sirene_record.siren)
  IN IF etat = EtatActif
     THEN [kind |-> "return", value |-> EffectifOfActive(effectif)]
     ELSE IF etat = EtatFerme
     THEN IF est_siege
          THEN [kind |-> "return", value |-> RADIEE]
          ELSE IF siege # 0
               THEN [kind |-> "call", record |-> sirene_head_subset[siege]]
               ELSE [kind |-> "return", value |-> A_PRECISER]
     ELSE [kind |-> "return", value |-> A_PRECISER]

\* what a call that ran out of stack raises
RecursionError == <<"RecursionError">>

\* fill_effectif as a whole, with `depth` activations already on the stack
RECURSIVE fill_effectif_at(_, _, _)
fill_effectif_at(sirene_record, sirene_head_subset, depth) ==
  LET frame == FillEffectifFrame(sirene_record, sirene_head_subset)
  IN IF frame.kind = "return" THEN frame.value
     ELSE IF depth >= RecursionLimit THEN RecursionError
     ELSE fill_effectif_at(frame.record, sirene_head_subset, depth + 1)

fill_effectif(sirene_record, sirene_head_subset) ==
  fill_effectif_at(sirene_record, sirene_head_subset, 1)

(***************************************************************************)
(* A call of fill_effectif on its own, one activation at a time.           *)
(***************************************************************************)
VARIABLES fe_args, fe_record, fe_depth, fe_pc, fe_ret

fe_vars == <<fe_args, fe_record, fe_depth, fe_pc, fe_ret>>

Tranches == {<<>>, <<"1", "2">>, NaN}

Sirens == {<<"1">>, <<"2">>}

EffectifRecords ==
  {SireneRow(<<"1">>, siren, <<"a">>, <<"x">>, <<"7", "5", "0">>, etat, tranche, siege) :
     siren \in Sirens, etat \in {EtatActif, EtatFerme, NaN},
     tranche \in Tranches, siege \in BOOLEAN}

HeadRows ==
  {SireneRow(<<"2">>, siren, <<"a">>, <<"x">>, <<"7", "5", "0">>, etat, tranche, siege) :
     siren \in Sirens, etat \in {EtatActif, EtatFerme},
     tranche \in {<<>>, <<"2", "1">>}, siege \in BOOLEAN}

IdleRow == SireneRow(<<>>, <<>>, <<>>, <<>>, <<>>, EtatActif, <<>>, FALSE)

fe_Idle ==
  /\ fe_args = [sirene_record |-> IdleRow, sirene_head_subset |-> <<>>]
  /\ fe_record = IdleRow
  /\ fe_depth = 0
  /\ fe_pc = "idle"
  /\ fe_ret = <<>>

fe_Init ==
  /\ fe_args \in [sirene_record : EffectifRecords,
                  sirene_head_subset : SeqUpTo(HeadRows, MaxHead)]
  /\ fe_record = fe_args.sirene_record
  /\ fe_depth = 1
  /\ fe_pc = "call"
  /\ fe_ret = <<>>

fe_Frame == FillEffectifFrame(fe_record, fe_args.sirene_head_subset)

\* the activation returns a value, and so do all the activations below it
FillEffectifReturn ==
  /\ fe_pc = "call"
  /\ fe_Frame.kind = "return"
  /\ fe_ret' = fe_Frame.value
  /\ fe_pc' = "done"
  /\ UNCHANGED <<fe_args, fe_record, fe_depth, matcher>>

\* line 139: the activation calls fill_effectif on the headquarters row
FillEffectifRecurse ==
  /\ fe_pc = "call"
  /\ fe_Frame.kind = "call"
  /\ fe_depth < RecursionLimit
  /\ fe_record' = fe_Frame.record
  /\ fe_depth' = fe_depth + 1
  /\ UNCHANGED <<fe_args, fe_pc, fe_ret, matcher>>

\* the call of line 139 with the stack full
FillEffectifOverflow ==
  /\ fe_pc = "call"
  /\ fe_Frame.kind = "call"
  /\ fe_depth >= RecursionLimit
  /\ fe_pc' = "raised"
  /\ fe_ret' = RecursionError
  /\ UNCHANGED <<fe_args, fe_record, fe_depth, matcher>>

(***************************************************************************)
(* updatev7.py: create_sirene_by_dept.                                     *)
(***************************************************************************)
\* the filter of lines 208-210
\* (a variant: no filter, as in updatev4.py)
KeepRow_all(row) == TRUE

KeepRow(row) == row.etatAdministratifEtablissement = EtatActif

\* the column 'dept': str(codePostalEtablissement)[:2]
\* (a variant: the first character only)
DeptOf_one(row) == Prefix(Str(row.codePostalEtablissement), 1)

DeptOf(row) == Prefix(Str(row.codePostalEtablissement), 2)

\* the dict of the groups of df.groupby('dept'): one key for each value of
\* 'dept', its rows in the order of the table
create_sirene_by_dept(sirene_df) ==
  LET df == SelectSeq(sirene_df, KeepRow)
      depts == {DeptOf(df[k]) : k \in 1..Len(df)}
  IN [dept \in depts |-> SelectSeq(df, LAMBDA row : DeptOf(row) = dept)]

\* dict.get(key): 0 rows and the flag found = FALSE for None
DictGet(d, key) ==
  IF key \in DOMAIN d THEN [found |-> TRUE, rows |-> d[key]]
  ELSE [found |-> FALSE, rows |-> <<>>]

(***************************************************************************)
(* A call of create_sirene_by_dept on its own.                             *)
(***************************************************************************)
VARIABLES idx_df, idx_pc, idx_ret

idx_vars == <<idx_df, idx_pc, idx_ret>>

Digit(k) ==
  CASE k = 1 -> "1" [] k = 2 -> "2" [] k = 3 -> "3" [] k = 4 -> "4" [] OTHER -> "5"

\* the siret of the k-th row of a table: every establishment has its own
SiretOf(k) == <<Digit(k)>>

PostalCodes ==
  {<<"7", "5", "0">>, <<"7", "5", "1">>, <<"6", "9">>, <<"7">>, <<>>, NaN}

Etats == {EtatActif, EtatFerme, NaN}

\* the tables of at most n rows, row k with siret k
IndexTables(n) ==
  UNION {{[k \in 1..len |->
             SireneRow(SiretOf(k), <<"1">>, <<"a">>, <<"x">>, f[k][1], f[k][2],
                       <<"1", "2">>, TRUE)] :
            f \in [1..len -> PostalCodes \X Etats]} : len \in 0..n}

idx_Idle ==
  /\ idx_df = <<>>
  /\ idx_pc = "idle"
  /\ idx_ret = <<>>

idx_Init ==
  /\ idx_df \in IndexTables(MaxRows)
  /\ idx_pc = "call"
  /\ idx_ret = <<>>

CallCreateSireneByDept ==
  /\ idx_pc = "call"
  /\ idx_ret' = create_sirene_by_dept(idx_df)
  /\ idx_pc' = "done"
  /\ UNCHANGED <<idx_df, matcher>>

(***************************************************************************)
(* fusion_finalev4.py: normalize_uid and fusion, which carries the         *)
(* matches of the updated CRM file over to the Orion table.                *)
(***************************************************************************)
\* Python's None
None == <<"None">>

\* s.rstrip(c)
RECURSIVE RStripChar(_, _)
RStripChar(s, c) ==
  IF s # <<>> /\ s[Len(s)] = c THEN RStripChar(SubSeq(s, 1, Len(s) - 1), c) ELSE s

\* `'.' in s`
HasDot(s) == \E k \in 1..Len(s) : s[k] = "."

normalize_uid(uid_val) ==
  IF uid_val = NaN \/ uid_val \in {<<>>, <<"n", "a", "n">>, <<"N", "o", "n", "e">>}
  THEN None
  ELSE LET s == Strip(Str(uid_val))
       IN IF HasDot(s) THEN RStripChar(RStripChar(s, "0"), ".") ELSE s

\* `if uid`: neither None nor the empty string
UidIsSet(uid) == uid # None /\ uid # <<>>

DigitChars == <<"0", "1", "2", "3", "4", "5", "6", "7", "8", "9">>

IsDigit(c) == \E d \in 1..Len(DigitChars) : DigitChars[d] = c

DigitValue(c) == (CHOOSE d \in 1..Len(DigitChars) : DigitChars[d] = c) - 1

RECURSIVE ParseDigits(_, _)
ParseDigits(s, acc) ==
  IF s = <<>> THEN acc ELSE ParseDigits(Tail(s), 10 * acc + DigitValue(Head(s)))

\* the text is a whole number, written with or without a fraction of zeros
IsNumberText(s) ==
  LET whole == RStripChar(RStripChar(s, "0"), ".")
      digits == IF HasDot(s) THEN whole ELSE s
  IN /\ s # NaN
     /\ digits # <<>>
     /\ \A k \in 1..Len(digits) : IsDigit(digits[k])
     /\ HasDot(s) => (Len(s) > Len(whole) + 1 /\ s[Len(whole) + 1] = ".")

\* pd.to_numeric(cell, errors='coerce') for one cell: the number, or NaN
\* (nan TRUE) for a missing cell and for a text that is no number
ToNumeric(cell) ==
  IF IsNumberText(cell)
  THEN [nan |-> FALSE,
        value |-> ParseDigits(IF HasDot(cell) THEN RStripChar(RStripChar(cell, "0"), ".") ELSE cell, 0)]
  ELSE [nan |-> TRUE, value |-> 0]

\* the column of the identifier, in both tables
UidColumn == "Identifiant interne (UID)"

\* line 78: the column score_match of crm_update made numeric, in place
NumericScores(crm) ==
  [k \in 1..Len(crm) |-> [crm[k] EXCEPT !.score_match = ToNumeric(crm[k].score_match)]]

\* lines 64-67: a copy of orion with the three columns added
NewOutput(table) ==
  [k \in 1..Len(table) |->
     table[k] @@ [SIRET |-> NaN, effectif_auto |-> NaN, score_match |-> 0]]

\* row a comes no later than row b in a table sorted by score_match,
\* descending, the NaN last
ScoreBefore(a, b) ==
  \/ b.score_match.nan
  \/ ~a.score_match.nan /\ a.score_match.value >= b.score_match.value

\* line 85: sort_values(by='score_match', ascending=False), whose default
\* sort is not stable: every order of the rows that is sorted
SortedByScore(crm) ==
  {[k \in 1..Len(crm) |-> crm[p[k]]] :
     p \in {q \in [1..Len(crm) -> 1..Len(crm)] :
              /\ \A a, b \in 1..Len(crm) : a # b => q[a] # q[b]
              /\ \A a, b \in 1..Len(crm) : a < b => ScoreBefore(crm[q[a]], crm[q[b]])}}

\* the score a row must reach to be carried over
FusionThreshold == 130

\* line 93
\* (a variant: every numeric score is valid)
IsValidMatch_any_score(uid, score_val) ==
  UidIsSet(uid) /\ ~score_val.nan

IsValidMatch(uid, score_val) ==
  UidIsSet(uid) /\ ~score_val.nan /\ score_val.value >= FusionThreshold

\* `uid not in valid_matches`
HasKey(matches, uid) == \E e \in 1..Len(matches) : matches[e].uid = uid

\* lines 89-101 for one row of crm_sorted: valid_matches after it
IndexRow(matches, row) ==
  LET uid == normalize_uid(row[UidColumn])
  IN IF IsValidMatch(uid, row.score_match) /\ ~HasKey(matches, uid)
     THEN Append(matches, [uid |-> uid,
                           SIRET |-> Str(row.SIRET),
                           effectif |-> Str(row.effectif),
                           score_match |-> row.score_match.value])
     ELSE matches

\* lines 109-113
uids_in_orion(out) ==
  {normalize_uid(out[k][UidColumn]) : k \in {n \in 1..Len(out) : UidIsSet(normalize_uid(out[n][UidColumn]))}}

\* lines 121-129 for one entry of valid_matches: output after it
ApplyEntry(out, match_data) ==
  IF match_data.uid \in uids_in_orion(out)
  THEN [idx \in 1..Len(out) |->
          IF normalize_uid(out[idx][UidColumn]) = match_data.uid
          THEN [out[idx] EXCEPT !.SIRET = match_data.SIRET,
                                !.effectif_auto = match_data.effectif,
                                !.score_match = match_data.score_match]
          ELSE out[idx]]
  ELSE out

VARIABLES orion, crm_update, output, crm_sorted, valid_matches, fu_k, fu_j,
          fu_pc, fu_returned

fu_vars == <<orion, crm_update, output, crm_sorted, valid_matches, fu_k, fu_j,
             fu_pc, fu_returned>>

\* largest Orion table given to fusion
MaxOrion == 2
\* largest updated CRM table given to fusion
MaxCrmUpdate == 2

OrionUids == {<<"1", ".", "0">>, <<"2">>, <<>>}

\* the k-th row of an Orion table
OrionRow(k, uid) == (UidColumn :> uid) @@ [Nom |-> <<"n", Digit(k)>>]

OrionTables ==
  UNION {{[k \in 1..n |-> OrionRow(k, u[k])] : u \in [1..n -> OrionUids]} : n \in 0..MaxOrion}

CrmUids == {<<"1">>, <<"1", ".", "0", "0">>, <<"2">>, <<"n", "a", "n">>}

\* the cells of score_match as the CSV file holds them
ScoreCells ==
  {<<"1", "2", "9", ".", "0">>, <<"1", "3", "0", ".", "0">>,
   <<"1", "4", "0", ".", "0">>, <<"x">>}

\* the k-th row of an updated CRM table
CrmUpdateRow(k, uid, score) ==
  (UidColumn :> uid)
  @@ [score_match |-> score, SIRET |-> SiretOf(k), effectif |-> <<"1", Digit(k)>>]

CrmUpdateTables ==
  UNION {{[k \in 1..n |-> CrmUpdateRow(k, c[k][1], c[k][2])] :
            c \in [1..n -> CrmUids \X ScoreCells]} : n \in 0..MaxCrmUpdate}

fu_Idle ==
  /\ orion = <<>>
  /\ crm_update = <<>>
  /\ output = <<>>
  /\ crm_sorted = <<>>
  /\ valid_matches = <<>>
  /\ fu_k = 0
  /\ fu_j = 0
  /\ fu_pc = "idle"
  /\ fu_returned = <<>>

fu_Init ==
  /\ orion \in OrionTables
  /\ crm_update \in CrmUpdateTables
  /\ output = <<>>
  /\ crm_sorted = <<>>
  /\ valid_matches = <<>>
  /\ fu_k = 1
  /\ fu_j = 1
  /\ fu_pc = "start"
  /\ fu_returned = <<>>

\* lines 64-85: the output table, the numeric scores, the sorted CRM rows
FusionPrepare ==
  /\ fu_pc = "start"
  /\ output' = NewOutput(orion)
  /\ crm_update' = NumericScores(crm_update)
  /\ crm_sorted' \in SortedByScore(crm_update')
  /\ fu_pc' = "index"
  /\ UNCHANGED <<orion, valid_matches, fu_k, fu_j, fu_returned>>

\* lines 87-104: one turn of the loop over crm_sorted
FusionIndexRow ==
  /\ fu_pc = "index"
  /\ fu_k <= Len(crm_sorted)
  /\ valid_matches' = IndexRow(valid_matches, crm_sorted[fu_k])
  /\ fu_k' = fu_k + 1
  /\ UNCHANGED <<orion, crm_update, output, crm_sorted, fu_j, fu_pc, fu_returned>>

\* lines 120-129: one turn of the loop over valid_matches, once the loop
\* over crm_sorted is over
FusionApplyMatch ==
  /\ fu_pc = "index"
  /\ fu_k > Len(crm_sorted)
  /\ fu_j <= Len(valid_matches)
  /\ output' = ApplyEntry(output, valid_matches[fu_j])
  /\ fu_j' = fu_j + 1
  /\ UNCHANGED <<orion, crm_update, crm_sorted, valid_matches, fu_k, fu_pc, fu_returned>>

\* line 143
FusionReturn ==
  /\ fu_pc = "index"
  /\ fu_k > Len(crm_sorted)
  /\ fu_j > Len(valid_matches)
  /\ fu_returned' = output
  /\ fu_pc' = "done"
  /\ UNCHANGED <<orion, crm_update, output, crm_sorted, valid_matches, fu_k, fu_j>>

(***************************************************************************)
(* updatev7.py: remplir_ligne_orion and update_CRM.                        *)
(***************************************************************************)
\* dict.get(key, default)
Get(rec, key, default) == IF key \in DOMAIN rec THEN rec[key] ELSE default

\* dict.setdefault(key, value)
SetDefault(rec, key, value) ==
  IF key \in DOMAIN rec THEN rec
  ELSE [k \in DOMAIN rec \cup {key} |-> IF k = key THEN value ELSE rec[k]]

\* d[key] = value
SetItem(rec, key, value) ==
  [k \in DOMAIN rec \cup {key} |-> IF k = key THEN value ELSE rec[k]]

\* lines 301-306: the copy of a CRM record with its five enrichment fields
NewRec(rec) ==
  SetDefault(SetDefault(SetDefault(SetDefault(SetDefault(rec,
    "SIRET", <<>>), "SIREN", <<>>), "effectif", <<>>), "nom_match_sirene", <<>>),
    "score_match", 0)

\* str.upper() on the characters of the model
UpperChar(c) ==
  CASE c = "a" -> "A"
    [] c = "c" -> "C"
    [] c = "e" -> "E"
    [] c = "f" -> "F"
    [] c = "n" -> "N"
    [] c = "r" -> "R"
    [] c = "s" -> "S"
    [] OTHER -> c

Upper(s) == [k \in 1..Len(s) |-> UpperChar(s[k])]

FRANCE == <<"F", "R", "A", "N", "C", "E">>

\* line 323: the country filter lets the record through
IsFrance(client) == Upper(Strip(Get(client, "Pays", <<>>))) = FRANCE

\* line 295: the rows flagged as headquarters
\* (a variant: every row is kept)
HeadSubset_all(sirene_df) == sirene_df

HeadSubset(sirene_df) == SelectSeq(sirene_df, LAMBDA row : row.etablissementSiege = TRUE)

\* line 248: the effectif is written, unless fill_effectif raised
SetEffectif(crm, client_index, effectif) ==
  IF effectif = RecursionError
  THEN [crm |-> crm, at_save |-> FALSE, raised |-> TRUE, error |-> "RecursionError"]
  ELSE [crm |-> [crm EXCEPT ![client_index] = SetItem(@, "effectif", effectif)],
        at_save |-> TRUE, raised |-> FALSE, error |-> "none"]

\* remplir_ligne_orion: the list after the call, and whether the call raised
remplir_ligne_orion(crm, client_index, sirene_row, head, matched_name, score) ==
  SetEffectif(
    [crm EXCEPT ![client_index] =
       SetItem(SetItem(SetItem(SetItem(@,
         "SIRET", sirene_row.siret), "SIREN", sirene_row.siren),
         "nom_match_sirene", matched_name), "score_match", score)],
    client_index,
    fill_effectif(sirene_row, head))

\* the threshold match_single_company takes when update_CRM calls it
DefaultThreshold == 100

\* One turn of the loop of lines 322-371 on crm[n] gives the list after it,
\* whether the turn reached the periodic save of line 374 (no `continue`
\* before it), and whether it raised, and what.

\* a `continue` of line 324 or 352
Continue(crm) == [crm |-> crm, at_save |-> FALSE, raised |-> FALSE, error |-> "none"]

\* line 323 on a record whose 'Pays' is a missing cell: float('nan') has no
\* method strip
PaysIsMissing(client) == Get(client, "Pays", <<>>) = NaN

AttributeError(crm) ==
  [crm |-> crm, at_save |-> FALSE, raised |-> TRUE, error |-> "AttributeError"]

\* lines 362-371
\* (a variant: the name written is the name of the first row of the bucket)
ApplyMatch_first_name(crm, n, head, rows, match_result) ==
  IF match_result.found
  THEN remplir_ligne_orion(crm, n, rows[match_result.match], head,
                           rows[1].nom_normalise,
                           match_result.score)
  ELSE [crm |-> crm, at_save |-> TRUE, raised |-> FALSE, error |-> "none"]

ApplyMatch(crm, n, head, rows, match_result) ==
  IF match_result.found
  THEN remplir_ligne_orion(crm, n, rows[match_result.match], head,
                           rows[match_result.match].nom_normalise,
                           match_result.score)
  ELSE [crm |-> crm, at_save |-> TRUE, raised |-> FALSE, error |-> "none"]

\* lines 351-371
MatchInSubset(m, crm, n, head, subset) ==
  IF ~subset.found \/ subset.rows = <<>>
  THEN Continue(crm)
  ELSE ApplyMatch(crm, n, head, subset.rows,
                  match_single_company(m, Get(crm[n], "Societe", <<>>),
                                       Get(crm[n], "Ville", <<>>),
                                       subset.rows, DefaultThreshold))

\* line 349
\* (a variant: the whole postal code is the key)
ClientDept_whole(client) == Str(Get(client, "CP", <<>>))

ClientDept(client) == Prefix(Str(Get(client, "CP", <<>>)), 2)

LoopBody(m, crm, n, by_dept, head) ==
  IF PaysIsMissing(crm[n])
  THEN AttributeError(crm)
  ELSE IF ~IsFrance(crm[n])
  THEN Continue(crm)
  ELSE MatchInSubset(m, crm, n, head, DictGet(by_dept, ClientDept(crm[n])))

VARIABLES sirene_df, crm_db, output_path, save_interval,
          sirene_head_subset, sirene_by_dept, crm_updated, i, pc, error,
          sink, saved_at, returned

run_vars == <<sirene_df, crm_db, output_path, save_interval,
              sirene_head_subset, sirene_by_dept, crm_updated, i, pc, error,
              sink, saved_at, returned>>

vars == <<matcher, ms_vars, nn_vars, mc_vars, fe_vars, idx_vars, fu_vars, run_vars>>

\* no file written yet
NoFile == <<[no_file |-> TRUE]>>

RunPostalCodes == {<<"7", "5", "0">>, <<"7">>}

RunNames == {<<"a", "b">>, <<"b">>}

\* the SIRENE tables of at most n rows, row k with siret k
RunTables(n) ==
  UNION {{[k \in 1..len |->
             SireneRow(SiretOf(k), <<"1">>, f[k][1], <<"x">>, f[k][2], f[k][3],
                       f[k][4], TRUE)] :
            f \in [1..len -> RunNames \X RunPostalCodes \X {EtatActif, EtatFerme}
                             \X {<<>>, <<"1", "2">>}]} : len \in 0..n}

CrmRecords ==
  [Pays : {<<"F", "r", "a", "n", "c", "e">>, <<"E", "S">>},
   CP : {<<"7", "5", "1">>, <<"7">>},
   Societe : {<<"a", "b">>},
   Ville : {<<"x">>}]

\* the tables of two establishments of two companies: the first active or
\* closed with the bracket 11, the second active with the bracket 21 or
\* an empty one
PairRows(k, etats, tranches) ==
  {SireneRow(SiretOf(k), <<"9", Digit(k)>>, nom, <<"x">>, cp, etat, tranche, TRUE) :
     nom \in {<<"a", "b">>, <<"a", " ", "b">>},
     cp \in {<<"7", "5", "0">>, <<"6", "9">>},
     etat \in etats, tranche \in tranches}

PairTables ==
  {<<r1, r2>> : r1 \in PairRows(1, {EtatActif, EtatFerme}, {<<"1", "1">>}),
                r2 \in PairRows(2, {EtatActif}, {<<"2", "1">>, <<>>})}

\* a CRM record that comes with the columns SIRET and score_match already
\* filled
PresetRecord ==
  [Pays |-> <<"E", "S">>, CP |-> <<"7">>, Societe |-> <<"a", "b">>,
   Ville |-> <<"x">>, SIRET |-> <<"5">>, score_match |-> 135]

\* a CRM record whose country cell is empty in the CSV
NoCountryRecord ==
  [Pays |-> NaN, CP |-> <<"7", "5", "1">>, Societe |-> <<"a", "b">>, Ville |-> <<"x">>]

\* a CRM record with its fields as typed in: the country in lower case
\* after a space, the name with its legal form, the city in upper case
TypedRecord ==
  [Pays |-> <<" ", "f", "r", "a", "n", "c", "e">>, CP |-> <<"6", "9", "1">>,
   Societe |-> <<"a", "b", " ", "S", "A">>, Ville |-> <<"X">>]

PairCrmRecords ==
  {[Pays |-> <<"F", "r", "a", "n", "c", "e">>, CP |-> <<"7", "5", "1">>,
    Societe |-> <<"a", "b">>, Ville |-> <<"x">>],
   [Pays |-> <<"E", "S">>, CP |-> <<"7", "5", "1">>,
    Societe |-> <<"a", "b">>, Ville |-> <<"x">>],
   TypedRecord, PresetRecord, NoCountryRecord}

\* the state in which update_CRM is called on one of these tables and a
\* list of these records
run_InitOn(tables, records) ==
  /\ sirene_df \in tables
  /\ crm_db \in SeqUpTo(records, MaxCrm)
  /\ output_path \in BOOLEAN
  /\ save_interval \in 1..MaxInterval
  /\ sirene_head_subset = <<>>
  /\ sirene_by_dept = <<>>
  /\ crm_updated = <<>>
  /\ i = 0
  /\ pc = "start"
  /\ error = "none"
  /\ sink = NoFile
  /\ saved_at = 0
  /\ returned = <<>>

run_Init == run_InitOn(RunTables(MaxSirene), CrmRecords)

pair_Init == run_InitOn(PairTables, PairCrmRecords)

\* line 301: new_rec is rec.copy(), a dict of its own
\* (a variant: new_rec is rec, the dict of the input list)
CopiesRecord_alias == FALSE

CopiesRecord == TRUE

\* the dicts of the input list, once the dicts of crm_updated hold `updated`
InputRecordsAfter(input, updated) == IF CopiesRecord THEN input ELSE updated

\* lines 295-313 with the initial save done (or no output path given)
Start ==
  /\ pc = "start"
  /\ sirene_head_subset' = HeadSubset(sirene_df)
  /\ sirene_by_dept' = create_sirene_by_dept(sirene_df)
  /\ crm_updated' = [k \in 1..Len(crm_db) |-> NewRec(crm_db[k])]
  /\ crm_db' = InputRecordsAfter(crm_db, crm_updated')
  /\ sink' = IF output_path THEN crm_updated' ELSE sink
  /\ pc' = "loop"
  /\ UNCHANGED <<sirene_df, output_path, save_interval, i, error,
                 saved_at, returned>>

\* lines 295-312 with to_csv raising: nothing catches it
StartWriteFails ==
  /\ pc = "start"
  /\ output_path
  /\ sirene_head_subset' = HeadSubset(sirene_df)
  /\ sirene_by_dept' = create_sirene_by_dept(sirene_df)
  /\ crm_updated' = [k \in 1..Len(crm_db) |-> NewRec(crm_db[k])]
  /\ crm_db' = InputRecordsAfter(crm_db, crm_updated')
  /\ pc' = "raised"
  /\ error' = "to_csv"
  /\ UNCHANGED <<sirene_df, output_path, save_interval, i, sink,
                 saved_at, returned>>

\* line 374: this turn of the loop saves
SavesAfter(n, at_save) == output_path /\ at_save /\ n % save_interval = 0

\* the effect of a turn of the loop, its periodic save done if it has one
TurnDone(body) ==
  /\ crm_updated' = body.crm
  /\ IF body.raised
     THEN pc' = "raised" /\ error' = body.error
          /\ UNCHANGED <<sink, saved_at>>
     ELSE /\ UNCHANGED <<pc, error>>
          /\ IF SavesAfter(i + 1, body.at_save)
             THEN sink' = body.crm /\ saved_at' = i + 1
             ELSE UNCHANGED <<sink, saved_at>>

\* one turn of the loop of lines 316-376
HandleRecord ==
  /\ pc = "loop"
  /\ i < Len(crm_updated)
  /\ TurnDone(LoopBody(matcher, crm_updated, i + 1, sirene_by_dept,
                       sirene_head_subset))
  /\ crm_db' = InputRecordsAfter(crm_db, crm_updated')
  /\ i' = i + 1
  /\ UNCHANGED <<sirene_df, output_path, save_interval,
                 sirene_head_subset, sirene_by_dept, returned>>

\* the effect of a turn of the loop whose periodic save raises
TurnSaveFails(body) ==
  /\ ~body.raised
  /\ SavesAfter(i + 1, body.at_save)
  /\ crm_updated' = body.crm

\* one turn of the loop, to_csv raising at line 375
HandleRecordWriteFails ==
  /\ pc = "loop"
  /\ i < Len(crm_updated)
  /\ TurnSaveFails(LoopBody(matcher, crm_updated, i + 1, sirene_by_dept,
                            sirene_head_subset))
  /\ crm_db' = InputRecordsAfter(crm_db, crm_updated')
  /\ i' = i + 1
  /\ pc' = "raised"
  /\ error' = "to_csv"
  /\ UNCHANGED <<sirene_df, output_path, save_interval,
                 sirene_head_subset, sirene_by_dept, sink, saved_at, returned>>

\* lines 378-383: the final save and the return
Finish ==
  /\ pc = "loop"
  /\ i = Len(crm_updated)
  /\ IF output_path
     THEN sink' = crm_updated /\ saved_at' = i
     ELSE UNCHANGED <<sink, saved_at>>
  /\ returned' = crm_updated
  /\ pc' = "done"
  /\ UNCHANGED <<sirene_df, crm_db, output_path, save_interval,
                 sirene_head_subset, sirene_by_dept, crm_updated, i, error>>

\* line 380 raising
FinishWriteFails ==
  /\ pc = "loop"
  /\ i = Len(crm_updated)
  /\ output_path
  /\ pc' = "raised"
  /\ error' = "to_csv"
  /\ UNCHANGED <<sirene_df, crm_db, output_path, save_interval,
                 sirene_head_subset, sirene_by_dept, crm_updated, i, sink,
                 saved_at, returned>>

run_Idle ==
  /\ sirene_df = <<>>
  /\ crm_db = <<>>
  /\ output_path = FALSE
  /\ save_interval = 1
  /\ sirene_head_subset = <<>>
  /\ sirene_by_dept = <<>>
  /\ crm_updated = <<>>
  /\ i = 0
  /\ pc = "idle"
  /\ error = "none"
  /\ sink = NoFile
  /\ saved_at = 0
  /\ returned = <<>>

(***************************************************************************)
(* The specifications: a run of update_CRM, and a call of each function    *)
(* on inputs of its own.                                                   *)
(***************************************************************************)
Init ==
  /\ matcher \in Matchers
  /\ run_Init
  /\ ms_Idle /\ mc_Idle /\ fe_Idle /\ idx_Idle /\ nn_Idle /\ fu_Idle

Next ==
  \/ Start /\ UNCHANGED <<fu_vars, nn_vars, ms_vars, mc_vars, fe_vars, idx_vars, matcher>>
  \/ StartWriteFails /\ UNCHANGED <<fu_vars, nn_vars, ms_vars, mc_vars, fe_vars, idx_vars, matcher>>
  \/ HandleRecord /\ UNCHANGED <<fu_vars, nn_vars, ms_vars, mc_vars, fe_vars, idx_vars, matcher>>
  \/ HandleRecordWriteFails /\ UNCHANGED <<fu_vars, nn_vars, ms_vars, mc_vars, fe_vars, idx_vars, matcher>>
  \/ Finish /\ UNCHANGED <<fu_vars, nn_vars, ms_vars, mc_vars, fe_vars, idx_vars, matcher>>
  \/ FinishWriteFails /\ UNCHANGED <<fu_vars, nn_vars, ms_vars, mc_vars, fe_vars, idx_vars, matcher>>

Spec == Init /\ [][Next]_vars

\* update_CRM on a table of two establishments
PairInit ==
  /\ matcher \in Matchers
  /\ pair_Init
  /\ ms_Idle /\ mc_Idle /\ fe_Idle /\ idx_Idle /\ nn_Idle /\ fu_Idle

SpecPair == PairInit /\ [][Next]_vars

ScoreInit ==
  /\ matcher \in Matchers
  /\ ms_Init
  /\ run_Idle /\ mc_Idle /\ fe_Idle /\ idx_Idle /\ nn_Idle /\ fu_Idle

ScoreNext == CallMatchScore /\ UNCHANGED <<fu_vars, nn_vars, run_vars, mc_vars, fe_vars, idx_vars>>

SpecScore == ScoreInit /\ [][ScoreNext]_vars

MatchInit ==
  /\ matcher \in Matchers
  /\ mc_Init
  /\ run_Idle /\ ms_Idle /\ fe_Idle /\ idx_Idle /\ nn_Idle /\ fu_Idle

MatchNext == CallMatchSingleCompany /\ UNCHANGED <<fu_vars, nn_vars, run_vars, ms_vars, fe_vars, idx_vars>>

SpecMatch == MatchInit /\ [][MatchNext]_vars

EffectifInit ==
  /\ matcher = "difflib"
  /\ fe_Init
  /\ run_Idle /\ ms_Idle /\ mc_Idle /\ idx_Idle /\ nn_Idle /\ fu_Idle

EffectifNext ==
  \/ FillEffectifReturn /\ UNCHANGED <<fu_vars, nn_vars, run_vars, ms_vars, mc_vars, idx_vars>>
  \/ FillEffectifRecurse /\ UNCHANGED <<fu_vars, nn_vars, run_vars, ms_vars, mc_vars, idx_vars>>
  \/ FillEffectifOverflow /\ UNCHANGED <<fu_vars, nn_vars, run_vars, ms_vars, mc_vars, idx_vars>>

SpecEffectif == EffectifInit /\ [][EffectifNext]_vars

\* fill_effectif called with the headquarters table that line 295 of
\* update_CRM makes of a SIRENE table
HeadEffectifInit ==
  /\ matcher = "difflib"
  /\ fe_args \in [sirene_record : EffectifRecords,
                  sirene_head_subset : {HeadSubset(t) : t \in SeqUpTo(HeadRows, MaxHead)}]
  /\ fe_record = fe_args.sirene_record
  /\ fe_depth = 1
  /\ fe_pc = "call"
  /\ fe_ret = <<>>
  /\ run_Idle /\ ms_Idle /\ mc_Idle /\ idx_Idle /\ nn_Idle /\ fu_Idle

HeadEffectifNext ==
  \/ FillEffectifReturn /\ UNCHANGED <<fu_vars, nn_vars, run_vars, ms_vars, mc_vars, idx_vars>>
  \/ FillEffectifRecurse /\ UNCHANGED <<fu_vars, nn_vars, run_vars, ms_vars, mc_vars, idx_vars>>

SpecHeadEffectif == HeadEffectifInit /\ [][HeadEffectifNext]_vars

IndexInit ==
  /\ matcher = "difflib"
  /\ idx_Init
  /\ run_Idle /\ ms_Idle /\ mc_Idle /\ fe_Idle /\ nn_Idle /\ fu_Idle

IndexNext == CallCreateSireneByDept /\ UNCHANGED <<fu_vars, nn_vars, run_vars, ms_vars, mc_vars, fe_vars>>

SpecIndex == IndexInit /\ [][IndexNext]_vars

NormalizeInit ==
  /\ matcher = "difflib"
  /\ nn_Init
  /\ run_Idle /\ ms_Idle /\ mc_Idle /\ fe_Idle /\ idx_Idle /\ fu_Idle

NormalizeNext ==
  \/ CallNormalizeName /\ UNCHANGED <<fu_vars, run_vars, ms_vars, mc_vars, fe_vars, idx_vars>>
  \/ CallNormalizeNameAgain /\ UNCHANGED <<fu_vars, run_vars, ms_vars, mc_vars, fe_vars, idx_vars>>
  \/ ApplyNormalizeCompanyName /\ UNCHANGED <<fu_vars, run_vars, ms_vars, mc_vars, fe_vars, idx_vars>>

SpecNormalize == NormalizeInit /\ [][NormalizeNext]_vars

FusionInit ==
  /\ matcher = "difflib"
  /\ fu_Init
  /\ run_Idle /\ ms_Idle /\ mc_Idle /\ fe_Idle /\ idx_Idle /\ nn_Idle

FusionNext ==
  \/ FusionPrepare /\ UNCHANGED <<matcher, nn_vars, run_vars, ms_vars, mc_vars, fe_vars, idx_vars>>
  \/ FusionIndexRow /\ UNCHANGED <<matcher, nn_vars, run_vars, ms_vars, mc_vars, fe_vars, idx_vars>>
  \/ FusionApplyMatch /\ UNCHANGED <<matcher, nn_vars, run_vars, ms_vars, mc_vars, fe_vars, idx_vars>>
  \/ FusionReturn /\ UNCHANGED <<matcher, nn_vars, run_vars, ms_vars, mc_vars, fe_vars, idx_vars>>

SpecFusion == FusionInit /\ [][FusionNext]_vars

(***************************************************************************)
(* The claims.                                                             *)
(***************************************************************************)

\* C1: in a run of update_CRM with an output path, whenever i records have
\* been handled, i is a multiple of save_interval and a record is still to
\* come, the sink holds the list as it is after those i records, whatever
\* happened to the i-th one; so the records handled since the last write
\* never number more than save_interval.
C1_SavedEveryInterval ==
  (pc = "loop" /\ output_path) =>
    /\ (0 < i /\ i < Len(crm_updated) /\ i % save_interval = 0) => saved_at = i
    /\ i - saved_at <= save_interval

\* C2: a write of the sink that fails does not abort update_CRM: the run is
\* still in its loop, or has returned the list.
C2_WriteFailureDoesNotAbort ==
  error = "to_csv" => pc \in {"loop", "done"}

\* C3: match_single_company returns a result exactly when some candidate of
\* the bucket scores at least the threshold, and the result is then a row of
\* the bucket, with its own score, which is the highest of the bucket.
C3_ResultIffSomeScoreReachesThreshold ==
  mc_pc = "done" =>
    /\ mc_ret.found <=> \E k \in mc_Candidates : mc_Score(k) >= mc_args.threshold
    /\ mc_ret.found =>
         /\ mc_ret.match \in mc_Candidates
         /\ mc_ret.score = mc_Score(mc_ret.match)
         /\ \A k \in mc_Candidates : mc_Score(k) <= mc_ret.score

\* C4: the row match_single_company returns is the first row of the bucket,
\* in its order, among those with the highest score: a later row with an
\* equal score does not replace it.
C4_FirstOfEqualBestIsReturned ==
  (mc_pc = "done" /\ mc_ret.match # 0) =>
    /\ \A k \in mc_Candidates : mc_Score(k) <= mc_Score(mc_ret.match)
    /\ \A k \in mc_Candidates :
         mc_Score(k) = mc_Score(mc_ret.match) => mc_ret.match <= k

\* C4 witness: two rows of the bucket tie for the highest score and the
\* first one is returned.
C4_Witness ==
  /\ mc_pc = "done"
  /\ Len(mc_args.sirene_subset) = 2
  /\ mc_Score(1) = mc_Score(2)
  /\ mc_ret.found
  /\ mc_ret.match = 1

\* the row of sirene_df with this siret (every row has its own)
RowsWithSiret(siret) == {k \in 1..Len(sirene_df) : sirene_df[k].siret = siret}

\* the CRM records that remplir_ligne_orion has filled
Enriched == {j \in 1..Len(crm_updated) : crm_updated[j].SIRET # <<>>}

\* C5: every bucket of update_CRM holds ACTIVE rows only, and every CRM
\* record that was enriched was enriched from an ACTIVE row.
C5_OnlyActiveRowsAreMatched ==
  (pc # "start") =>
    /\ \A dept \in DOMAIN sirene_by_dept : \A k \in 1..Len(sirene_by_dept[dept]) :
         sirene_by_dept[dept][k].etatAdministratifEtablissement = EtatActif
    /\ \A j \in Enriched : \A k \in RowsWithSiret(crm_updated[j].SIRET) :
         sirene_df[k].etatAdministratifEtablissement = EtatActif

\* C5 witness: the run is over, the table holds a CLOSED row with the name
\* and the department of a French CRM record, and that record is not
\* enriched.
C5_Witness ==
  /\ pc = "done"
  /\ Len(sirene_df) = 1
  /\ Len(crm_updated) >= 1
  /\ sirene_df[1].etatAdministratifEtablissement = EtatFerme
  /\ IsFrance(crm_updated[1])
  /\ DeptOf(sirene_df[1]) = ClientDept(crm_updated[1])
  /\ normalize_name(crm_updated[1].Societe) = sirene_df[1].nom_normalise
  /\ crm_updated[1].SIRET = <<>>

\* a postal code bucketing can use: present, and of 2 characters at least
UsablePostalCode(row) ==
  /\ row.codePostalEtablissement # NaN
  /\ Len(row.codePostalEtablissement) >= 2

\* C6: a row whose postal code is missing, empty or shorter than 2
\* characters is in no bucket of update_CRM, and no CRM record is matched to
\* it.
C6_ShortPostalCodeIsUnreachable ==
  (pc # "start") =>
    /\ \A dept \in DOMAIN sirene_by_dept : \A k \in 1..Len(sirene_by_dept[dept]) :
         UsablePostalCode(sirene_by_dept[dept][k])
    /\ \A j \in Enriched : \A k \in RowsWithSiret(crm_updated[j].SIRET) :
         UsablePostalCode(sirene_df[k])

\* the keys under which the row with this siret can be retrieved
KeysOf(siret) ==
  {dept \in DOMAIN idx_ret :
     \E k \in 1..Len(idx_ret[dept]) : idx_ret[dept][k].siret = siret}

\* C7: after create_sirene_by_dept every ACTIVE row with a postal code of 2
\* characters at least is in the bucket of the first two characters of its
\* postal code, once, and in no other; no row is in two buckets; and the
\* buckets hold rows of the table only.
C7_BucketsPartitionActiveRows ==
  idx_pc = "done" =>
    /\ \A k \in 1..Len(idx_df) :
         (idx_df[k].etatAdministratifEtablissement = EtatActif
            /\ UsablePostalCode(idx_df[k])) =>
           /\ KeysOf(idx_df[k].siret) = {Prefix(idx_df[k].codePostalEtablissement, 2)}
           /\ Len(SelectSeq(idx_ret[Prefix(idx_df[k].codePostalEtablissement, 2)],
                            LAMBDA row : row = idx_df[k])) = 1
    /\ \A k \in 1..Len(idx_df) : Cardinality(KeysOf(idx_df[k].siret)) <= 1
    /\ \A dept \in DOMAIN idx_ret : \A k \in 1..Len(idx_ret[dept]) :
         \E j \in 1..Len(idx_df) : idx_df[j] = idx_ret[dept][k]

\* C7 witness: two ACTIVE rows with different postal codes of the same
\* department are in the one bucket of that department.
C7_Witness ==
  /\ idx_pc = "done"
  /\ Len(idx_df) = 2
  /\ idx_df[1].codePostalEtablissement = <<"7", "5", "0">>
  /\ idx_df[2].codePostalEtablissement = <<"7", "5", "1">>
  /\ DOMAIN idx_ret = {<<"7", "5">>}
  /\ Len(idx_ret[<<"7", "5">>]) = 2

\* the value C8 gives for a row, following at most n references
RECURSIVE C8_Value(_, _, _)
C8_Value(r, H, n) ==
  IF r.etatAdministratifEtablissement = EtatActif
  THEN IF r.trancheEffectifsEtablissement \in {<<>>, NaN}
       THEN A_PRECISER
       ELSE r.trancheEffectifsEtablissement
  ELSE IF r.etablissementSiege THEN RADIEE
  ELSE IF \E k \in 1..Len(H) : H[k].siren = r.siren
  THEN IF n = 0 THEN A_PRECISER
       ELSE C8_Value(H[CHOOSE k \in 1..Len(H) :
                         H[k].siren = r.siren /\ \A j \in 1..(k - 1) : H[j].siren # r.siren],
                     H, n - 1)
  ELSE A_PRECISER

\* C8: what fill_effectif returns for an ACTIVE or CLOSED row: its own
\* bracket, 'A PRECISER' for an empty or missing bracket, 'RADIEE' for a
\* closed headquarters, the value of the headquarters row for a closed
\* secondary establishment, 'A PRECISER' when that row is not found.
C8_EffectifByCase ==
  (fe_pc = "done"
     /\ fe_args.sirene_record.etatAdministratifEtablissement \in {EtatActif, EtatFerme}) =>
    fe_ret = C8_Value(fe_args.sirene_record, fe_args.sirene_head_subset, RecursionLimit)

\* C9: fill_effectif terminates with a value on every input, a table in
\* which a headquarters lookup leads back to a row already visited
\* included: it never calls itself until the stack is full.
C9_FillEffectifTerminates ==
  fe_pc # "raised"

\* the same call with the two names exchanged
ms_Swapped ==
  match_score(matcher, ms_args.siren_norm, ms_args.client_norm,
              ms_args.client_city, ms_args.siren_city)

\* C10: match_score is symmetric in its two names.
C10_ScoreIsSymmetric ==
  ms_pc = "done" => ms_ret = ms_Swapped

\* C10 as amended: match_score gives the same value with the two names
\* exchanged whenever the acronym bonus is the same in the two orders and
\* so is the ratio of the library, which it always is with
\* python-Levenshtein: the substring bonus and the city term do not depend
\* on the order of the names.
C10_ScoreIsSymmetricUpToAcronymAndRatio ==
  (ms_pc = "done"
     /\ acronym_bonus(ms_args.client_norm, ms_args.siren_norm)
          = acronym_bonus(ms_args.siren_norm, ms_args.client_norm)
     /\ (matcher = "levenshtein"
           \/ token_sort_ratio(matcher, ms_args.client_norm, ms_args.siren_norm)
                = token_sort_ratio(matcher, ms_args.siren_norm, ms_args.client_norm)))
    => ms_ret = ms_Swapped

\* C10 witness: two different names, one a part of the other, with the same
\* acronym bonus of 15 in both orders, have been scored.
C10_Witness ==
  /\ ms_pc = "done"
  /\ ms_args.client_norm # ms_args.siren_norm
  /\ acronym_bonus(ms_args.client_norm, ms_args.siren_norm) = 15
  /\ acronym_bonus(ms_args.siren_norm, ms_args.client_norm) = 15
  /\ substring_bonus(ms_args.client_norm, ms_args.siren_norm) = 20
  /\ ms_ret = ms_Swapped

\* the candidates of the call that are exact duplicates of the query: same
\* normalized name, same normalized city
mc_Duplicates ==
  {k \in mc_Candidates :
     /\ mc_args.sirene_subset[k].nom_normalise = normalize_name(mc_args.client_name)
     /\ normalize_name(mc_args.sirene_subset[k].libelleCommuneEtablissement)
          = normalize_name(mc_args.client_city)}

\* C11 as stated: every candidate whose normalized name and normalized city
\* equal the query's scores 150, and at the default threshold
\* match_single_company returns a match.
C11_ExactDuplicateScores150 ==
  (mc_pc = "done" /\ mc_args.threshold = DefaultThreshold) =>
    \A k \in mc_Duplicates : mc_Score(k) = 150 /\ mc_ret.found

\* C11, amended: when the query's normalized name and normalized city are
\* both non-empty, every candidate whose normalized name and normalized
\* city equal them scores 150, and at the default threshold
\* match_single_company returns a match, with the score 150.
C11_NonEmptyExactDuplicateScores150 ==
  (/\ mc_pc = "done"
   /\ mc_args.threshold = DefaultThreshold
   /\ normalize_name(mc_args.client_name) # <<>>
   /\ normalize_name(mc_args.client_city) # <<>>) =>
    \A k \in mc_Duplicates :
      mc_Score(k) = 150 /\ mc_ret.found /\ mc_ret.score = 150

C11_Witness ==
  /\ mc_pc = "done"
  /\ mc_args.threshold = DefaultThreshold
  /\ normalize_name(mc_args.client_name) = <<"a", " ", "b">>
  /\ normalize_name(mc_args.client_city) = <<"x">>
  /\ Len(mc_args.sirene_subset) = 2
  /\ mc_Duplicates = {2}
  /\ mc_ret.found
  /\ mc_ret.match = 2
  /\ mc_ret.score = 150

\* the whitespace-separated tokens of a name
Tokens(name) == {Split(Str(name))[k] : k \in 1..Len(Split(Str(name)))}

\* the query shares no token with the name of any candidate of the call
mc_NoCommonToken ==
  \A k \in mc_Candidates :
    Tokens(normalize_name(mc_args.client_name))
      \cap Tokens(mc_args.sirene_subset[k].nom_normalise) = {}

\* the query's normalized city is the normalized city of no candidate
mc_NoCommonCity ==
  \A k \in mc_Candidates :
    normalize_name(mc_args.client_city)
      # normalize_name(mc_args.sirene_subset[k].libelleCommuneEtablissement)

\* neither the substring bonus nor the acronym bonus goes to a candidate
mc_NoBonus ==
  \A k \in mc_Candidates :
    /\ substring_bonus(normalize_name(mc_args.client_name),
                       Str(mc_args.sirene_subset[k].nom_normalise)) = 0
    /\ acronym_bonus(normalize_name(mc_args.client_name),
                     Str(mc_args.sirene_subset[k].nom_normalise)) = 0

\* C12 as stated: when the query's normalized name shares no token with
\* any candidate's and its city is no candidate's city, every candidate
\* scores less than 100 and match_single_company returns no match at the
\* default threshold.
C12_NoCommonTokenNoMatch ==
  (/\ mc_pc = "done"
   /\ mc_args.threshold = DefaultThreshold
   /\ mc_NoCommonToken
   /\ mc_NoCommonCity) =>
    /\ \A k \in mc_Candidates : mc_Score(k) < 100
    /\ ~mc_ret.found

\* C12, amended: when moreover no candidate gets the substring bonus or the
\* acronym bonus, every candidate scores at most 90 and
\* match_single_company returns no match at the default threshold.
C12_NoSignalNoMatch ==
  (/\ mc_pc = "done"
   /\ mc_args.threshold = DefaultThreshold
   /\ mc_NoCommonToken
   /\ mc_NoCommonCity
   /\ mc_NoBonus) =>
    /\ \A k \in mc_Candidates : mc_Score(k) <= 90
    /\ ~mc_ret.found

C12_Witness ==
  /\ mc_pc = "done"
  /\ mc_args.threshold = DefaultThreshold
  /\ Len(mc_args.sirene_subset) = 2
  /\ normalize_name(mc_args.client_name) = <<"a", "b">>
  /\ mc_args.sirene_subset[1].nom_normalise = <<"b", "b">>
  /\ mc_Score(1) = 40
  /\ mc_NoCommonToken
  /\ mc_NoCommonCity
  /\ mc_NoBonus
  /\ ~mc_ret.found

\* C13: normalize_name is idempotent: called on its own result, it returns
\* that result.
C13_NormalizeNameIsIdempotent ==
  nn_pc = "again" => nn_again = nn_ret

\* the five fields that update_CRM adds to a CRM record
EnrichmentFields == {"SIRET", "SIREN", "effectif", "nom_match_sirene", "score_match"}

\* the five enrichment values of rec are those of this registry row: its
\* identifiers, its name, its bracket (or the sentinel) and its score
\* against rec
EnrichedFrom(rec, row) ==
  /\ rec.SIRET = row.siret
  /\ rec.SIREN = row.siren
  /\ rec.nom_match_sirene = row.nom_normalise
  /\ rec.effectif \in {row.trancheEffectifsEtablissement, A_PRECISER}
  /\ rec.score_match =
       match_score(matcher, normalize_name(Get(rec, "Societe", <<>>)),
                   row.nom_normalise,
                   normalize_name(Get(rec, "Ville", <<>>)),
                   normalize_name(row.libelleCommuneEtablissement))

\* a written content is complete and self-consistent
WrittenContentOk(content) ==
  /\ Len(content) = Len(crm_db)
  /\ \A k \in 1..Len(content) :
       /\ EnrichmentFields \subseteq DOMAIN content[k]
       /\ \A f \in DOMAIN crm_db[k] \ EnrichmentFields : content[k][f] = crm_db[k][f]
       /\ \/ content[k] = NewRec(crm_db[k])
          \/ \E j \in 1..Len(sirene_df) : EnrichedFrom(content[k], sirene_df[j])

\* C14: what a write of update_CRM puts in the sink is the complete list of
\* the CRM records in input order, each with its five enrichment fields,
\* and each either as initialized or with five values taken from one
\* registry row; the last content written is the list returned.
C14_SinkIsCompleteAndConsistent ==
  /\ sink # NoFile => WrittenContentOk(sink)
  /\ (pc = "done" /\ output_path) => sink = returned

C14_Witness ==
  /\ pc = "loop"
  /\ i = 2
  /\ saved_at = 2
  /\ Len(crm_db) = 2
  /\ sink = crm_updated
  /\ sink[1] = NewRec(crm_db[1])
  /\ sink[2] # NewRec(crm_db[2])
  /\ EnrichedFrom(sink[2], sirene_df[2])
  /\ sirene_df[1].nom_normalise # sirene_df[2].nom_normalise
  /\ DeptOf(sirene_df[1]) = DeptOf(sirene_df[2])
  /\ sirene_df[1].etatAdministratifEtablissement = EtatActif

\* the bucket update_CRM looks the input record k up in
BucketOf(k) == DictGet(sirene_by_dept, ClientDept(crm_db[k])).rows

\* the score of row j of that bucket against the input record k
BucketScore(k, j) ==
  match_score(matcher, normalize_name(Get(crm_db[k], "Societe", <<>>)),
              BucketOf(k)[j].nom_normalise,
              normalize_name(Get(crm_db[k], "Ville", <<>>)),
              normalize_name(BucketOf(k)[j].libelleCommuneEtablissement))

\* the input record k is one update_CRM does not match: the country filter
\* fails, there is no bucket for its prefix, or no candidate reaches the
\* threshold
Unmatched(k) ==
  \/ ~IsFrance(crm_db[k])
  \/ BucketOf(k) = <<>>
  \/ \A j \in 1..Len(BucketOf(k)) : BucketScore(k, j) < DefaultThreshold

\* C15: in the list update_CRM returns, every record it did not match has
\* the default enrichment values: SIRET, SIREN, effectif and
\* nom_match_sirene empty, score_match 0.
C15_UnmatchedHoldsDefaults ==
  pc = "done" =>
    \A k \in 1..Len(crm_db) :
      Unmatched(k) =>
        /\ returned[k].SIRET = <<>>
        /\ returned[k].SIREN = <<>>
        /\ returned[k].effectif = <<>>
        /\ returned[k].nom_match_sirene = <<>>
        /\ returned[k].score_match = 0

\* C16: update_CRM takes the records in input order and changes a record
\* only when the country filter lets it through, its bucket is not empty
\* and match_single_company returns a match; every other record is skipped
\* without error and stays as initialized, and so does every record not
\* yet handled.
C16_OnlyMatchedRecordsChange ==
  /\ error \in {"none", "to_csv"}
  /\ \A k \in 1..Len(crm_updated) :
       (k > i \/ Unmatched(k)) => crm_updated[k] = NewRec(crm_db[k])

\* the score of the registry row j against the input record k
RowScore(k, j) ==
  match_score(matcher, normalize_name(Get(crm_db[k], "Societe", <<>>)),
              sirene_df[j].nom_normalise,
              normalize_name(Get(crm_db[k], "Ville", <<>>)),
              normalize_name(sirene_df[j].libelleCommuneEtablissement))

\* the input record k and the registry row j are the same company in the
\* same department: country France, the same non-empty normalized name,
\* the same normalized city, postal codes that differ and share their
\* first two characters, the row ACTIVE and the only one of its bucket
\* with its score or more
SameCompany(k, j) ==
  /\ crm_db[k].Pays # NaN
  /\ Upper(Strip(crm_db[k].Pays)) = FRANCE
  /\ normalize_name(crm_db[k].Societe) # <<>>
  /\ normalize_name(crm_db[k].Societe) = sirene_df[j].nom_normalise
  /\ normalize_name(crm_db[k].Ville)
       = normalize_name(sirene_df[j].libelleCommuneEtablissement)
  /\ Len(crm_db[k].CP) >= 2
  /\ crm_db[k].CP # sirene_df[j].codePostalEtablissement
  /\ Prefix(crm_db[k].CP, 2) = Prefix(sirene_df[j].codePostalEtablissement, 2)
  /\ sirene_df[j].etatAdministratifEtablissement = EtatActif
  /\ \A r \in 1..Len(sirene_df) :
       (/\ r # j
        /\ sirene_df[r].etatAdministratifEtablissement = EtatActif
        /\ Prefix(sirene_df[r].codePostalEtablissement, 2)
             = Prefix(sirene_df[j].codePostalEtablissement, 2))
         => RowScore(k, r) < RowScore(k, j)

\* the record k is returned matched to the row j, with a score that
\* reaches the threshold
MatchedTo(k, j) ==
  /\ returned[k].SIRET = sirene_df[j].siret
  /\ returned[k].SIREN = sirene_df[j].siren
  /\ returned[k].nom_match_sirene = sirene_df[j].nom_normalise
  /\ returned[k].score_match = RowScore(k, j)
  /\ returned[k].score_match >= DefaultThreshold

ReturnedKeepsInput ==
  /\ Len(returned) = Len(crm_db)
  /\ \A k \in 1..Len(crm_db) :
       /\ DOMAIN returned[k] = DOMAIN crm_db[k] \cup EnrichmentFields
       /\ \A f \in DOMAIN crm_db[k] \ EnrichmentFields : returned[k][f] = crm_db[k][f]

\* C18: update_CRM returns as many records as its CRM input has, in the
\* same order, every field but the five enrichment fields as in the input;
\* and no step of the run changes the registry table or the records of
\* the input list.
C18_InputsAreLeftAsGiven ==
  /\ [](pc = "done" => ReturnedKeepsInput)
  /\ [][sirene_df' = sirene_df /\ crm_db' = crm_db]_vars

C18_Witness ==
  /\ pc = "done"
  /\ Len(crm_db) = 2
  /\ ReturnedKeepsInput
  /\ "SIRET" \notin DOMAIN crm_db[1]
  /\ returned[1].SIRET = SiretOf(2)
  /\ crm_db[2] = PresetRecord

\* the first letters of the words of a normalized name
Initials(name) ==
  LET starts == {k \in 1..Len(name) : name[k] # " " /\ (k = 1 \/ name[k-1] = " ")}
  IN [n \in 1..Cardinality(starts) |->
        name[CHOOSE k \in starts : Cardinality({j \in starts : j <= k}) = n]]

\* a normalized name without its spaces
Squeezed(name) == SelectSeq(name, LAMBDA ch : ch # " ")

\* the acronym bonus of a query q and a candidate c, as the rule states it
StatedAcronymBonus(q, c) ==
  IF Initials(q) = <<>> \/ Initials(c) = <<>> THEN 0
  ELSE IF Initials(q) = Initials(c) THEN 20
  ELSE IF \E k \in 0..Len(Squeezed(c)) :
            k + Len(Initials(q)) <= Len(Squeezed(c))
            /\ SubSeq(Squeezed(c), k + 1, k + Len(Initials(q))) = Initials(q)
       THEN 15
  ELSE 0

\* what is left of the returned score once the ratio, the substring bonus
\* and the city term are taken off
ms_AcronymPart ==
  ms_ret - token_sort_ratio(matcher, ms_args.client_norm, ms_args.siren_norm)
         - substring_bonus(ms_args.client_norm, ms_args.siren_norm)
         - city_bonus(ms_args.client_city, ms_args.siren_city)

\* C19: the acronym bonus inside the score of match_score is 20 when the
\* acronyms of the two names are equal and both non-empty, else 15 when
\* the acronym of the query is a contiguous part of the candidate without
\* its spaces, else 0, and 0 whenever one of the acronyms is empty.
C19_AcronymBonusTable ==
  ms_pc = "done" => ms_AcronymPart = StatedAcronymBonus(ms_args.client_norm, ms_args.siren_norm)

C19_Witness ==
  /\ ms_pc = "done"
  /\ ms_args.client_norm = <<"a", " ", "b">>
  /\ ms_args.siren_norm = <<"b", "a", "b">>
  /\ ms_AcronymPart = 15

\* the words of a raw text as the two normalizers see them: the maximal
\* runs of letters and digits of the folded lower-case text
RECURSIVE WordsAcc(_, _, _)
WordsAcc(s, cur, acc) ==
  LET flushed == IF cur = <<>> THEN acc ELSE acc \cup {cur}
  IN IF s = <<>> THEN flushed
     ELSE IF IsWordChar(Head(s)) THEN WordsAcc(Tail(s), Append(cur, Head(s)), acc)
     ELSE WordsAcc(Tail(s), <<>>, flushed)

\* no word of the raw text is a legal form, for either normalizer
HasNoLegalForm(raw) ==
  /\ raw # NaN
  /\ \A w \in WordsAcc(Fold(Lower(raw)), <<>>, {}) :
       Lower(w) \notin LegalForms \cup CompanyLegalForms

\* C20: for a raw company name without legal-form words, the
\* 'nom_normalise' that normalize_company_name writes on the registry side
\* equals normalize_name of the same raw name on the CRM side.
C20_BothSidesNormalizeAlike ==
  (nn_pc # "call" /\ nc_pc = "done" /\ HasNoLegalForm(nn_arg))
    => nom_normalise = nn_ret

\* the rows of the updated CRM table whose normalized UID is that of the
\* Orion row idx and whose score is a number >= 130
fu_Sources(idx) ==
  {k \in 1..Len(crm_update) :
     /\ normalize_uid(crm_update[k][UidColumn]) = normalize_uid(orion[idx][UidColumn])
     /\ ~crm_update[k].score_match.nan
     /\ crm_update[k].score_match.value >= 130}

\* the Orion row idx of the table returned holds what the CRM row k gives
fu_AppliedFrom(idx, k) ==
  /\ fu_returned[idx].SIRET = Str(crm_update[k].SIRET)
  /\ fu_returned[idx].effectif_auto = Str(crm_update[k].effectif)
  /\ fu_returned[idx].score_match = crm_update[k].score_match.value

\* nothing was written into the Orion row idx of the table returned
fu_Untouched(idx) ==
  /\ fu_returned[idx].SIRET = NaN
  /\ fu_returned[idx].effectif_auto = NaN
  /\ fu_returned[idx].score_match = 0

\* C21: fusion writes SIRET, effectif_auto and score_match into an Orion
\* row only from a CRM row with the same normalized UID and a numeric
\* score >= 130, and from the one with the highest score among those
\* sharing the UID; an Orion row without such a CRM row keeps score 0.0
\* and no SIRET; the table returned has the rows of the Orion input in
\* the same order.
C21_FusionAppliesBestValidMatch ==
  fu_pc = "done" =>
    /\ Len(fu_returned) = Len(orion)
    /\ \A idx \in 1..Len(orion) :
         /\ \A col \in DOMAIN orion[idx] : fu_returned[idx][col] = orion[idx][col]
         /\ fu_Sources(idx) = {} => fu_Untouched(idx)
         /\ ~fu_Untouched(idx) =>
              \E k \in fu_Sources(idx) :
                /\ fu_AppliedFrom(idx, k)
                /\ \A j \in fu_Sources(idx) :
                     crm_update[j].score_match.value <= crm_update[k].score_match.value

C21_Witness ==
  /\ fu_pc = "done"
  /\ Len(orion) = 2
  /\ Len(crm_update) = 2
  /\ crm_update[1][UidColumn] # crm_update[2][UidColumn]
  /\ fu_Sources(1) = {1, 2}
  /\ crm_update[1].score_match.value < crm_update[2].score_match.value
  /\ fu_AppliedFrom(1, 2)
  /\ fu_Sources(2) = {}
  /\ fu_Untouched(2)

\* C22: with the headquarters table of update_CRM, which holds only rows
\* flagged as headquarters, fill_effectif makes at most one recursive
\* call: the row that find_headquarters gives is ACTIVE, and its bracket
\* or 'A PRECISER' is returned, or CLOSED and a headquarters, and 'RADIEE'
\* is returned; there is never a second lookup.
C22_AtMostOneRecursiveCall ==
  /\ fe_depth <= 2
  /\ fe_pc # "raised"
  /\ fe_depth = 2 =>
       /\ FillEffectifFrame(fe_record, fe_args.sirene_head_subset).kind = "return"
       /\ fe_record.etablissementSiege = TRUE
       /\ fe_record.etatAdministratifEtablissement \in {EtatActif, EtatFerme}
       /\ fe_pc = "done" =>
            IF fe_record.etatAdministratifEtablissement = EtatFerme
            THEN fe_ret = RADIEE
            ELSE fe_ret \in {fe_record.trancheEffectifsEtablissement, A_PRECISER}

C22_Witness ==
  /\ fe_pc = "done"
  /\ fe_depth = 2
  /\ fe_args.sirene_record.etatAdministratifEtablissement = EtatFerme
  /\ ~fe_args.sirene_record.etablissementSiege
  /\ Len(fe_args.sirene_head_subset) = 2
  /\ fe_record = fe_args.sirene_head_subset[2]
  /\ fe_ret = RADIEE

\* every score match_score gives to a row of the bucket of a record lies
\* between -10 and 150
RunScoresInRange ==
  \A k \in 1..Len(crm_updated) :
    \A j \in 1..Len(BucketOf(k)) : BucketScore(k, j) \in (0 - 10)..150

\* every record update_CRM matched has a score between 100 and 150
WrittenScoresInRange ==
  \A k \in 1..Len(returned) :
    ~Unmatched(k) => returned[k].score_match \in 100..150

\* every record update_CRM did not match has the score 0.0
UnmatchedScoresAreZero ==
  \A k \in 1..Len(returned) :
    Unmatched(k) => returned[k].score_match = 0

\* C23: match_score returns a value between -10 and 150; so every
\* score_match that update_CRM writes at the default threshold lies between
\* 100 and 150, and a record that was never matched keeps the score 0.0.
C23_ScoresStayInRange ==
  /\ RunScoresInRange
  /\ pc = "done" => (WrittenScoresInRange /\ UnmatchedScoresAreZero)

====
